---- MODULE Spec2Model ----
(***************************************************************************)
(* Model of the in-memory token ledger of src/sample/RustToken.rs:         *)
(* struct Token and its operations new, transfer, mint, burn, balance_of   *)
(* and transfer_ownership.                                                 *)
(*                                                                         *)
(* u64 is scaled down to the range 0..U64Max; arithmetic keeps its width.  *)
(* The `+=` and `-=` of the source are overflow-checked in a build with    *)
(* overflow checks (debug) where they panic, and wrap modulo 2^64 in a     *)
(* build without them (release).  The variable build fixes which of the    *)
(* two the program was compiled as.                                        *)
(***************************************************************************)
EXTENDS Integers

\* largest value of the (scaled-down) u64 type
U64Max == 3

\* largest value of the u64 type in the run of main, whose literals
\* (1_000_000, 1000, 500) are kept as they are in the source
MainU64Max == 1073741823

U64 == 0..U64Max

\* account identities (String); the empty string is a legal String
Accounts == {"", "owner_address", "user1"}

Names == {"Example Token"}

Symbols == {"EXT"}

\* overflow-checks on (debug) or off (release)
Builds == {"debug", "release"}

\* the &'static str carried by Err(..), and the two non-Err outcomes
ErrInsufficientBalance == "Insufficient balance"

ErrMint == "Only owner can mint tokens"

ErrOwnership == "Only owner can transfer ownership"

Unauthorized == {ErrMint, ErrOwnership}

Ok == "Ok"

Panic == "panic"

NoArg == "-"

VARIABLES
  token,    \* the Token value: name, symbol, total_supply, balances, owner
  build,    \* how the program was compiled
  call,     \* the last invocation: operation and arguments
  pre,      \* the Token value before the last invocation
  ret,      \* what the last invocation returned (or Panic)
  wrapped,  \* whether an arithmetic step of the last invocation wrapped
  out,      \* the u64 returned by the last balance_of (0 after other calls)
  pc        \* "client": any caller, any call; otherwise the line of main

vars == <<token, build, call, pre, ret, wrapped, out, pc>>

\* u64::MAX of this run
MAX == IF pc = "client" THEN U64Max ELSE MainU64Max

\* number of values of the type: arithmetic wraps modulo this
Modulus == MAX + 1

----------------------------------------------------------------------------
\* HashMap helpers and u64 arithmetic

\* balances.get(k).unwrap_or(&0)
get(balances, k) == IF k \in DOMAIN balances THEN balances[k] ELSE 0

\* balances.entry(k).or_insert(0): the map with an entry for k
or_insert(balances, k) ==
  [a \in (DOMAIN balances) \cup {k} |->
     IF a \in DOMAIN balances THEN balances[a] ELSE 0]

\* x += y on u64: the wrapped value and whether the true sum is out of range
add_assign(x, y) ==
  [val |-> (x + y) % Modulus, overflow |-> x + y > MAX]

\* x -= y on u64: the wrapped value and whether the true difference is negative
sub_assign(x, y) ==
  [val |-> (x - y + Modulus) % Modulus, overflow |-> x < y]

\* an out-of-range result panics when overflow checks are compiled in
panics(r) == r.overflow /\ build = "debug"

\* outcome of a call: the Token afterwards, the value returned, wrap flag
Outcome(self, r, w) == [self |-> self, ret |-> r, wrapped |-> w]

RECURSIVE SumOver(_, _)
SumOver(balances, S) ==
  IF S = {} THEN 0
  ELSE LET a == CHOOSE x \in S : TRUE
       IN balances[a] + SumOver(balances, S \ {a})

\* the sum of all values stored in balances (as a mathematical integer)
SumOfBalances(balances) == SumOver(balances, DOMAIN balances)

----------------------------------------------------------------------------
\* The operations of impl Token, as functions of the Token value

new_ZeroBalance(name, symbol, initial_supply, owner) ==
  [name |-> name,
   symbol |-> symbol,
   total_supply |-> initial_supply,
   balances |-> [a \in {owner} |-> 0],
   owner |-> owner]

new(name, symbol, initial_supply, owner) ==
  [name |-> name,
   symbol |-> symbol,
   total_supply |-> initial_supply,
   balances |-> [a \in {owner} |-> initial_supply],
   owner |-> owner]

transfer_LeCheck(self, sender, recipient, amount) ==
  LET sender_balance == get(self.balances, sender) IN
  IF sender_balance <= amount
  THEN Outcome(self, ErrInsufficientBalance, FALSE)
  ELSE
    LET b1 == or_insert(self.balances, sender)
        d  == sub_assign(b1[sender], amount)
        b2 == [b1 EXCEPT ![sender] = d.val]
        b3 == or_insert(b2, recipient)
        c  == add_assign(b3[recipient], amount)
    IN IF panics(c)
       THEN Outcome([self EXCEPT !.balances = b3], Panic, FALSE)
       ELSE Outcome([self EXCEPT !.balances =
                                    [b3 EXCEPT ![recipient] = c.val]],
                    Ok, c.overflow)

transfer_StaleRecipient(self, sender, recipient, amount) ==
  LET sender_balance == get(self.balances, sender) IN
  IF sender_balance < amount
  THEN Outcome(self, ErrInsufficientBalance, FALSE)
  ELSE
    LET b1 == or_insert(or_insert(self.balances, sender), recipient)
        d  == sub_assign(b1[sender], amount)
        c  == add_assign(b1[recipient], amount)
    IN IF panics(c)
       THEN Outcome([self EXCEPT !.balances = b1], Panic, FALSE)
       ELSE Outcome([self EXCEPT !.balances =
                       [[b1 EXCEPT ![sender] = d.val]
                            EXCEPT ![recipient] = c.val]],
                    Ok, c.overflow)

transfer(self, sender, recipient, amount) ==
  LET sender_balance == get(self.balances, sender) IN
  IF sender_balance < amount
  THEN Outcome(self, ErrInsufficientBalance, FALSE)
  ELSE
    LET b1 == or_insert(self.balances, sender)
        d  == sub_assign(b1[sender], amount)
    IN IF panics(d)
       THEN Outcome([self EXCEPT !.balances = b1], Panic, FALSE)
       ELSE
         LET b2 == [b1 EXCEPT ![sender] = d.val]
             b3 == or_insert(b2, recipient)
             c  == add_assign(b3[recipient], amount)
         IN IF panics(c)
            THEN Outcome([self EXCEPT !.balances = b3], Panic, d.overflow)
            ELSE Outcome([self EXCEPT !.balances =
                                         [b3 EXCEPT ![recipient] = c.val]],
                         Ok, d.overflow \/ c.overflow)

mint_NoOwnerCheck(self, to, amount, caller) ==
  LET b1 == or_insert(self.balances, to)
      c  == add_assign(b1[to], amount)
      t  == add_assign(self.total_supply, amount)
  IN Outcome([self EXCEPT !.balances = [b1 EXCEPT ![to] = c.val],
                          !.total_supply = t.val],
             Ok, c.overflow \/ t.overflow)

mint_NoSupply(self, to, amount, caller) ==
  IF caller # self.owner
  THEN Outcome(self, ErrMint, FALSE)
  ELSE
    LET b1 == or_insert(self.balances, to)
        c  == add_assign(b1[to], amount)
    IN IF panics(c)
       THEN Outcome([self EXCEPT !.balances = b1], Panic, FALSE)
       ELSE Outcome([self EXCEPT !.balances = [b1 EXCEPT ![to] = c.val]],
                    Ok, c.overflow)

mint(self, to, amount, caller) ==
  IF caller # self.owner
  THEN Outcome(self, ErrMint, FALSE)
  ELSE
    LET b1 == or_insert(self.balances, to)
        c  == add_assign(b1[to], amount)
    IN IF panics(c)
       THEN Outcome([self EXCEPT !.balances = b1], Panic, FALSE)
       ELSE
         LET b2 == [b1 EXCEPT ![to] = c.val]
             t  == add_assign(self.total_supply, amount)
         IN IF panics(t)
            THEN Outcome([self EXCEPT !.balances = b2], Panic, c.overflow)
            ELSE Outcome([self EXCEPT !.balances = b2,
                                      !.total_supply = t.val],
                         Ok, c.overflow \/ t.overflow)

burn_OwnerOnly(self, from, amount) ==
  LET from_balance == get(self.balances, from) IN
  IF from_balance < amount \/ from # self.owner
  THEN Outcome(self, ErrInsufficientBalance, FALSE)
  ELSE
    LET b1 == or_insert(self.balances, from)
        d  == sub_assign(b1[from], amount)
        b2 == [b1 EXCEPT ![from] = d.val]
        t  == sub_assign(self.total_supply, amount)
    IN IF panics(t)
       THEN Outcome([self EXCEPT !.balances = b2], Panic, FALSE)
       ELSE Outcome([self EXCEPT !.balances = b2,
                                 !.total_supply = t.val],
                    Ok, t.overflow)

burn(self, from, amount) ==
  LET from_balance == get(self.balances, from) IN
  IF from_balance < amount
  THEN Outcome(self, ErrInsufficientBalance, FALSE)
  ELSE
    LET b1 == or_insert(self.balances, from)
        d  == sub_assign(b1[from], amount)
    IN IF panics(d)
       THEN Outcome([self EXCEPT !.balances = b1], Panic, FALSE)
       ELSE
         LET b2 == [b1 EXCEPT ![from] = d.val]
             t  == sub_assign(self.total_supply, amount)
         IN IF panics(t)
            THEN Outcome([self EXCEPT !.balances = b2], Panic, d.overflow)
            ELSE Outcome([self EXCEPT !.balances = b2,
                                      !.total_supply = t.val],
                         Ok, d.overflow \/ t.overflow)

balance_of_OneIfAbsent(self, account) ==
  IF account \in DOMAIN self.balances THEN self.balances[account] ELSE 1

balance_of(self, account) == get(self.balances, account)

transfer_ownership(self, new_owner, caller) ==
  IF caller # self.owner
  THEN Outcome(self, ErrOwnership, FALSE)
  ELSE Outcome([self EXCEPT !.owner = new_owner], Ok, FALSE)

----------------------------------------------------------------------------
\* The state machine: construction, then any sequence of calls

Invocation(op, src, dst, amount, caller) ==
  [op |-> op, src |-> src, dst |-> dst, amount |-> amount, caller |-> caller]

\* a panic unwinds through the caller: no later call sees the Token
Running == ret # Panic

\* record a call and its outcome
Record(c, o) ==
  /\ call' = c
  /\ pre' = token
  /\ token' = o.self
  /\ ret' = o.ret
  /\ wrapped' = o.wrapped
  /\ out' = 0

\* record a call of balance_of(&self, account), which returns a u64
RecordRead(account, v) ==
  /\ call' = Invocation("balance_of", account, NoArg, 0, NoArg)
  /\ pre' = token
  /\ token' = token
  /\ ret' = Ok
  /\ wrapped' = FALSE
  /\ out' = v

\* the Token is driven by an arbitrary caller ...
InitClient ==
  /\ pc = "client"
  /\ \E name \in Names, symbol \in Symbols,
        initial_supply \in U64, owner \in Accounts :
       /\ token = new(name, symbol, initial_supply, owner)
       /\ call = Invocation("new", NoArg, owner, initial_supply, NoArg)

\* ... or by main
InitMain ==
  /\ pc = "L97"
  /\ token = new("Example Token", "EXT", 1000000, "owner_address")
  /\ call = Invocation("new", NoArg, "owner_address", 1000000, NoArg)

Init ==
  /\ build \in Builds
  /\ (InitClient \/ InitMain)
  /\ pre = token
  /\ ret = Ok
  /\ wrapped = FALSE
  /\ out = 0

Transfer ==
  \E sender \in Accounts, recipient \in Accounts, amount \in U64 :
    /\ pc = "client"
    /\ Running
    /\ Record(Invocation("transfer", sender, recipient, amount, NoArg),
              transfer(token, sender, recipient, amount))
    /\ UNCHANGED <<build, pc>>

Mint ==
  \E to \in Accounts, amount \in U64, caller \in Accounts :
    /\ pc = "client"
    /\ Running
    /\ Record(Invocation("mint", NoArg, to, amount, caller),
              mint(token, to, amount, caller))
    /\ UNCHANGED <<build, pc>>

Burn ==
  \E from \in Accounts, amount \in U64 :
    /\ pc = "client"
    /\ Running
    /\ Record(Invocation("burn", from, NoArg, amount, NoArg),
              burn(token, from, amount))
    /\ UNCHANGED <<build, pc>>

TransferOwnership ==
  \E new_owner \in Accounts, caller \in Accounts :
    /\ pc = "client"
    /\ Running
    /\ Record(Invocation("transfer_ownership", NoArg, new_owner, 0, caller),
              transfer_ownership(token, new_owner, caller))
    /\ UNCHANGED <<build, pc>>

BalanceOf ==
  \E account \in Accounts :
    /\ pc = "client"
    /\ Running
    /\ RecordRead(account, balance_of(token, account))
    /\ UNCHANGED <<build, pc>>

\* main, line 97: let _ = token.transfer("owner_address", "user1", 1000)
MainTransfer ==
  /\ pc = "L97"
  /\ Running
  /\ Record(Invocation("transfer", "owner_address", "user1", 1000, NoArg),
            transfer(token, "owner_address", "user1", 1000))
  /\ pc' = "L100"
  /\ UNCHANGED build

\* main, line 100: let _ = token.mint("user2", 500, "owner_address")
MainMint ==
  /\ pc = "L100"
  /\ Running
  /\ Record(Invocation("mint", NoArg, "user2", 500, "owner_address"),
            mint(token, "user2", 500, "owner_address"))
  /\ pc' = "L103"
  /\ UNCHANGED build

\* main, lines 103-105: the three println! of balance_of
MainPrint ==
  /\ pc \in {"L103", "L104", "L105"}
  /\ Running
  /\ LET account == CASE pc = "L103" -> "owner_address"
                      [] pc = "L104" -> "user1"
                      [] pc = "L105" -> "user2"
     IN RecordRead(account, balance_of(token, account))
  /\ pc' = CASE pc = "L103" -> "L104"
             [] pc = "L104" -> "L105"
             [] pc = "L105" -> "done"
  /\ UNCHANGED build

Next ==
  \/ Transfer \/ Mint \/ Burn \/ TransferOwnership \/ BalanceOf
  \/ MainTransfer \/ MainMint \/ MainPrint

Spec == Init /\ [][Next]_vars

----------------------------------------------------------------------------
\* Properties

\* the values an operation may return to its caller
TypedResults ==
  [transfer |-> {Ok, ErrInsufficientBalance},
   burn |-> {Ok, ErrInsufficientBalance},
   mint |-> {Ok, ErrMint},
   transfer_ownership |-> {Ok, ErrOwnership},
   balance_of |-> {Ok},
   new |-> {Ok}]

\* C1: in every state observable between operations total_supply equals the sum of all values
\* stored in balances.
C1_SupplyEqualsSumOfBalances ==
  Running => token.total_supply = SumOfBalances(token.balances)

\* C2: no operation makes a balance or total_supply wrap around the unsigned
\* range; in particular a mint whose sum exceeds the maximum does not produce
\* a wrapped value.
C2_NoWrapAround == ~wrapped

\* C3: mint and transfer_ownership called by anyone but the current owner
\* fail with the Unauthorized error and leave total_supply, every balance and
\* owner as they were.
C3_UnauthorizedChangesNothing ==
  (call.op \in {"mint", "transfer_ownership"} /\ call.caller # pre.owner)
    => (ret \in Unauthorized /\ token = pre)

\* C3 witness: a mint of a positive amount by a non-owner has been rejected.
C3_Witness ==
  /\ call.op = "mint"
  /\ call.caller # pre.owner
  /\ call.amount > 0
  /\ ret = ErrMint

\* C4: transfer and burn fail with InsufficientBalance exactly when the
\* source account's balance (0 for an unknown account) is less than amount,
\* and a failing call changes nothing.
C4_InsufficientBalanceExactly ==
  call.op \in {"transfer", "burn"} =>
    /\ (ret = ErrInsufficientBalance)
         <=> (balance_of(pre, call.src) < call.amount)
    /\ (ret = ErrInsufficientBalance) => (token = pre)

\* C4 witness: a transfer from an account holding something, but less than
\* the amount, has been rejected.
C4_Witness ==
  /\ call.op = "transfer"
  /\ balance_of(pre, call.src) > 0
  /\ balance_of(pre, call.src) < call.amount
  /\ ret = ErrInsufficientBalance

\* C5: mint called by the current owner succeeds for every amount in every
\* reachable state, and afterwards balance_of(to) and total_supply are each
\* exactly amount greater than before.
C5_MintByOwnerAddsAmount ==
  (call.op = "mint" /\ call.caller = pre.owner) =>
    /\ ret = Ok
    /\ balance_of(token, call.dst) = balance_of(pre, call.dst) + call.amount
    /\ token.total_supply = pre.total_supply + call.amount

\* C6: a transfer call, successful or failing, leaves total_supply and the
\* sum of all balances as they were (hence so does every sequence of them).
C6_TransferConserves ==
  call.op = "transfer" =>
    /\ token.total_supply = pre.total_supply
    /\ SumOfBalances(token.balances) = SumOfBalances(pre.balances)

\* C7: in every reachable state, for every account and amount, mint by the
\* owner immediately followed by burn of the same amount from the same
\* account both succeed and restore total_supply and the account's balance.
C7_MintThenBurnRestores ==
  Running =>
    \A to \in Accounts, amount \in U64 :
      LET m == mint(token, to, amount, token.owner)
          b == burn(m.self, to, amount)
      IN /\ m.ret = Ok
         /\ b.ret = Ok
         /\ b.self.total_supply = token.total_supply
         /\ balance_of(b.self, to) = balance_of(token, to)

\* C8: whenever burn passes its check balance_of(from) >= amount,
\* total_supply >= amount holds too and the decrement of total_supply does
\* not underflow; a burn that would go below zero fails with
\* InsufficientBalance and leaves the state unchanged.
C8_BurnNeverUnderflows ==
  call.op = "burn" =>
    /\ balance_of(pre, call.src) >= call.amount
         => (pre.total_supply >= call.amount /\ ret = Ok /\ ~wrapped)
    /\ balance_of(pre, call.src) < call.amount
         => (ret = ErrInsufficientBalance /\ token = pre)

\* C9: in every reachable state owner is a non-empty account identity.
C9_OwnerNonEmpty == token.owner # ""

\* C10: every invocation returns success or the typed failure of its
\* operation; none aborts.
C10_NoCrash == ret \in TypedResults[call.op]

\* C11: transfer(a, a, amount) with balance_of(a) >= amount succeeds and
\* leaves balance_of(a), every other balance and total_supply unchanged.
C11_SelfTransferNoNetEffect ==
  (/\ call.op = "transfer"
   /\ call.src = call.dst
   /\ balance_of(pre, call.src) >= call.amount)
    => /\ ret = Ok
       /\ \A a \in Accounts : balance_of(token, a) = balance_of(pre, a)
       /\ token.total_supply = pre.total_supply

\* C11 witness: an account has transferred a positive amount to itself.
C11_Witness ==
  /\ call.op = "transfer"
  /\ call.src = call.dst
  /\ call.amount > 0
  /\ ret = Ok

\* C12: owner changes only through a successful transfer_ownership called
\* by the current owner; after such a call with a new owner different from
\* the old one, mint and transfer_ownership called by the old owner fail with
\* Unauthorized and those called by the new owner succeed.
C12_OwnerChangesOnlyByOwner ==
  /\ token.owner # pre.owner
       => (/\ call.op = "transfer_ownership"
           /\ call.caller = pre.owner
           /\ ret = Ok
           /\ token.owner = call.dst)
  /\ (/\ call.op = "transfer_ownership"
      /\ ret = Ok
      /\ call.dst # pre.owner)
       => \A to \in Accounts, amount \in U64, new_owner \in Accounts :
            /\ mint(token, to, amount, pre.owner).ret = ErrMint
            /\ transfer_ownership(token, new_owner, pre.owner).ret
                 = ErrOwnership
            /\ mint(token, to, amount, call.dst).ret = Ok
            /\ transfer_ownership(token, new_owner, call.dst).ret = Ok

\* C13: main constructs the ledger with 1,000,000 credited to owner_address;
\* transfer(owner_address, user1, 1000) succeeds, then
\* mint(user2, 500, owner_address) succeeds, and afterwards the balances are
\* 999000, 1000 and 500 and total_supply is 1000500.
C13_MainScenario ==
  /\ pc = "L97" =>
       /\ balance_of(token, "owner_address") = 1000000
       /\ token.total_supply = 1000000
  /\ pc = "L100" => (call.op = "transfer" /\ ret = Ok)
  /\ pc = "L103" => (call.op = "mint" /\ ret = Ok)
  /\ pc \in {"L103", "L104", "L105", "done"} =>
       /\ balance_of(token, "owner_address") = 999000
       /\ balance_of(token, "user1") = 1000
       /\ balance_of(token, "user2") = 500
       /\ token.total_supply = 1000500
  /\ pc = "L104" => out = 999000
  /\ pc = "L105" => out = 1000
  /\ pc = "done" => out = 500

\* C13 witness: main has run to its end.
C13_Witness == pc = "done" /\ call.op = "balance_of" /\ call.src = "user2"

\* C14: balance_of never fails, changes no part of the ledger (adds no entry
\* to balances), returns the stored balance of a known account and 0 for an
\* account without an entry.
C14_BalanceOfPureRead ==
  call.op = "balance_of" =>
    /\ ret = Ok
    /\ token = pre
    /\ DOMAIN token.balances = DOMAIN pre.balances
    /\ call.src \in DOMAIN pre.balances => out = pre.balances[call.src]
    /\ call.src \notin DOMAIN pre.balances => out = 0

\* C14 witness: balance_of has been asked for an account without an entry
\* while another account holds a positive balance.
C14_Witness ==
  /\ call.op = "balance_of"
  /\ call.src \notin DOMAIN token.balances
  /\ \E a \in DOMAIN token.balances : token.balances[a] > 0

\* C15: new always succeeds, for every initial_supply including 0, and
\* yields total_supply = initial_supply, the given owner, and balances with
\* exactly one entry, owner -> initial_supply.
C15_NewSeedsOwner ==
  call.op = "new" =>
    /\ ret = Ok
    /\ token.total_supply = call.amount
    /\ token.owner = call.dst
    /\ DOMAIN token.balances = {call.dst}
    /\ token.balances[call.dst] = call.amount
    /\ token.name \in Names
    /\ token.symbol \in Symbols

\* C15 witness: a ledger has been constructed with a positive supply.
C15_Witness == call.op = "new" /\ call.amount > 0 /\ call.dst = "user1"

\* C16: after any invocation of mint or burn, either both the target
\* account's balance and total_supply have changed by amount (in u64
\* arithmetic), or neither has changed; in no outcome, the overflow of mint
\* included, is only one of the two updated.
C16_MintBurnAtomic ==
  call.op \in {"mint", "burn"} =>
    LET account == IF call.op = "mint" THEN call.dst ELSE call.src
        delta == IF call.op = "mint" THEN call.amount
                 ELSE (Modulus - call.amount) % Modulus
        db == (balance_of(token, account) - balance_of(pre, account)
                 + Modulus) % Modulus
        dt == (token.total_supply - pre.total_supply + Modulus) % Modulus
    IN \/ (db = delta /\ dt = delta)
       \/ (db = 0 /\ dt = 0)

\* C17: a successful transfer between two different accounts decreases the
\* sender's balance by exactly amount, increases the recipient's by exactly
\* amount, and leaves every other balance, total_supply and owner unchanged;
\* the only possible new map entries are for sender and recipient.
C17_TransferFrame ==
  (call.op = "transfer" /\ ret = Ok /\ call.src # call.dst) =>
    /\ balance_of(token, call.src) = balance_of(pre, call.src) - call.amount
    /\ balance_of(token, call.dst) = balance_of(pre, call.dst) + call.amount
    /\ \A a \in DOMAIN token.balances \cup DOMAIN pre.balances :
         a \notin {call.src, call.dst}
           => (/\ a \in DOMAIN pre.balances
               /\ a \in DOMAIN token.balances
               /\ token.balances[a] = pre.balances[a])
    /\ DOMAIN token.balances = DOMAIN pre.balances \cup {call.src, call.dst}
    /\ token.total_supply = pre.total_supply
    /\ token.owner = pre.owner

\* C18: the outcome and effect of burn and of transfer do not depend on who
\* the owner is: from a ledger that differs from the actual one only in
\* owner, the same call returns the same result and produces the same
\* balances and total_supply.
C18_BurnTransferIgnoreOwner ==
  call.op \in {"burn", "transfer"} =>
    \A o \in Accounts :
      LET other == [pre EXCEPT !.owner = o]
          alt == IF call.op = "burn"
                 THEN burn(other, call.src, call.amount)
                 ELSE transfer(other, call.src, call.dst, call.amount)
      IN /\ alt.ret = ret
         /\ alt.self.balances = token.balances
         /\ alt.self.total_supply = token.total_supply
         /\ alt.self.owner = o

\* C18 witness: after an ownership transfer, a positive amount has been
\* burnt from an account that is not the owner's.
C18_Witness ==
  /\ call.op = "burn"
  /\ call.amount > 0
  /\ ret = Ok
  /\ call.src # token.owner
  /\ token.owner \notin DOMAIN token.balances

\* C19: in every state observable between operations, the balance of every
\* account is at most total_supply.
C19_BalanceAtMostSupply ==
  Running =>
    \A a \in DOMAIN token.balances : token.balances[a] <= token.total_supply

====
